---- MODULE Spec2Model ----
(***************************************************************************)
(* The resumable two-phase crawl engine of src/crawler.py (RedditCrawler): *)
(* phase 1 collects candidate post URLs from the search API                *)
(* (collect_post_urls), phase 2 fetches every candidate (crawl_posts), and *)
(* both persist their progress in the state file and the output file.      *)
(* A behaviour is a sequence of runs of crawl_posts over the same two      *)
(* files; a run ends by returning, by an interrupt or by being killed.     *)
(***************************************************************************)
EXTENDS Integers, Sequences, FiniteSets, TLC

(* ----------------------------- bounds ---------------------------------- *)
\* Largest self.max_posts (a constructor argument, crawler.py:34) with a
\* well-behaved search API, and with any search API.
MaxPosts == 4
MaxPostsAny == 3
\* Number of distinct posts the search API can return.
NumIds == 5
\* Items per search-API page; the code asks for min(100, ...) (crawler.py:485).
PageCap == 2
\* Phase 1 saves after this many new candidates; the code uses 50 (crawler.py:548).
SaveEvery == 2
\* Phase 1 also saves when the count is a multiple of this; the code uses 250 (crawler.py:548).
SaveMod == 5
\* Phase 2 flushes when the pending batch is a multiple of this; the code uses 10 (crawler.py:768).
BatchSize == 2
\* Runs of crawl_posts in one behaviour.
MaxRuns == 2
\* Injected I/O errors and browser errors in one behaviour.
MaxFaults == 1
\* Injected errors in one behaviour of the specification in which two writes
\* that follow each other can fail.
MaxFaultsInRow == 2
\* Rows of the posts table, and the largest max_retries and max_concurrent
\* of an analyzer (the code's defaults are 3 and 10, llm_analyzer.py:49-50).
DbPosts == 3
MaxRetries == 2
MaxConcurrent == 2
\* Distinct comment bodies, and the number of top-level comments of a post
\* and of replies of a top-level comment; a reply has one reply less.
CommentTexts == 2
MaxReplies == 2

(* ------------------------ program constants ---------------------------- *)
HttpCeiling == 3
TimeoutCeiling == 5
GenericCeiling == 3
FetchCeiling == 3

(* ------------------------------ values --------------------------------- *)
\* Python's None (and every falsy value of an id or a timestamp).
None == 0
\* A key that is missing from a JSON object.
Absent == -1

Min(a, b) == IF a < b THEN a ELSE b

\* created_utc of post i: newest first, posts 2k and 2k+1 share a second.
TsOf(i) == NumIds - (i \div 2)

\* "/r/<sub>/comments/<pid>/<slug>/" ; slug is FALSE when nothing follows the id.
Permalink(i) == [pid |-> i, slug |-> TRUE]

\* One item of the search API's "data" array.
Post(i) == [id |-> i, permalink |-> Permalink(i), created_utc |-> TsOf(i)]
NoIdItem == [id |-> None, permalink |-> Permalink(1), created_utc |-> TsOf(1)]
NoTsItem == [id |-> 1, permalink |-> Permalink(1), created_utc |-> Absent]

\* An upstream with an item that lacks its id and one that lacks its
\* created_utc among the posts.
FlawedStream == <<Post(1), NoIdItem>> \o [i \in 1..(NumIds - 1) |-> Post(i + 1)]
                \o <<NoTsItem>>

\* An upstream whose first page ends with an item that lacks its created_utc.
FlawedLastStream == <<Post(1), NoTsItem>> \o [i \in 1..(NumIds - 1) |-> Post(i + 1)]

\* The whole upstream, newest first.
Stream == [i \in 1..NumIds |-> Post(i)]

\* re.search(r'/comments/([a-zA-Z0-9]+)/', url): the id needs a '/' after it.
ExtractPostId(url) == IF url.slug THEN url.pid ELSE None

\* The files.
NoFile == [st |-> "none"]
Partial == [st |-> "partial"]
NoCp == [has |-> FALSE, before_timestamp |-> None, collected_post_ids |-> {}]

\* What the challenge detector can see of a page: sel, a visible element that
\* matches a captcha selector; pre, the <pre> element ("none": there is none,
\* "text": its text lacks one of the keys title, author, selftext, "keys": it
\* has the keys but is no post listing, "post": the JSON of a post); kw, the
\* body text holds one of the keywords.
NoPage == [sel |-> FALSE, pre |-> "unloaded", kw |-> FALSE]
PostPage == [sel |-> FALSE, pre |-> "post", kw |-> TRUE]
PostWithWidget == [sel |-> TRUE, pre |-> "post", kw |-> FALSE]
KeysOnly == [sel |-> FALSE, pre |-> "keys", kw |-> FALSE]
WidgetPage == [sel |-> TRUE, pre |-> "none", kw |-> TRUE]
LoginWall == [sel |-> FALSE, pre |-> "none", kw |-> TRUE]
KeywordText == [sel |-> FALSE, pre |-> "text", kw |-> TRUE]
PlainText == [sel |-> FALSE, pre |-> "text", kw |-> FALSE]
BlankPage == [sel |-> FALSE, pre |-> "none", kw |-> FALSE]

\* The pages a navigation can end on.
Pages == {PostPage, PostWithWidget, KeysOnly, WidgetPage, LoginWall,
          KeywordText, PlainText, BlankPage}

\* The comment listing of a post's JSON, raw_data[1]['data']['children']. A
\* node is {"kind": ..., "data": {...}}; kind "more" is the placeholder for
\* comments that were not sent. "replies" of a comment is "" (no dict) or a
\* listing {"data": {"children": [...]}}.
NoReplies == [dict |-> FALSE, children |-> <<>>]
Listing(children) == [dict |-> TRUE, children |-> children]
MoreNode == [kind |-> "more", data |-> [body |-> 0, replies |-> NoReplies]]
Comment(t, replies) == [kind |-> "t1", data |-> [body |-> t, replies |-> replies]]

SeqsUpTo(S, n) == UNION {[1..k -> S] : k \in 0..n}

\* Comments of the third, second and first level.
Level3 == {MoreNode} \cup {Comment(t, NoReplies) : t \in 1..CommentTexts}
RepliesOver(S, n) == {NoReplies} \cup {Listing(c) : c \in SeqsUpTo(S, n)}
Level2 ==
    {MoreNode} \cup {Comment(t, r) : t \in 1..CommentTexts,
                                     r \in RepliesOver(Level3, MaxReplies - 1)}
Level1 ==
    {MoreNode} \cup {Comment(t, r) : t \in 1..CommentTexts,
                                     r \in RepliesOver(Level2, MaxReplies)}
Forests == SeqsUpTo(Level1, MaxReplies)

VARIABLES
    max_retries,          \* LLMAnalyzer: self.max_retries
    max_concurrent,       \* LLMAnalyzer: self.max_concurrent
    include_been_analyzed, \* analyze_posts_from_db: include_been_analyzed
    concurrent,           \* analyze_posts_from_db: concurrent
    index_range,          \* analyze_posts_from_db: index_range
    db,                   \* the posts table: index_in_list -> row
    posts,                \* analyze_posts_from_db: posts (their index_in_list)
    tasks,                \* one analyze_post / analyze_post_async per post
    semaphore,            \* run_all: the permits left in semaphore
    results,              \* analyze_posts_from_db: results
    apc,                  \* position of analyze_posts_from_db
    comments_tree,        \* fetch_post_json: comments_tree
    comments,             \* fetch_post_json: post_data["comments"]
    max_posts,            \* self.max_posts
    api,                  \* the environment: [mode, stream] of the upstream,
                          \* errors: how many injected errors it has in store
    stateFile,            \* self.state_file on disk
    outFile,              \* self.output_file on disk
    pc,                   \* position of the run
    run,                  \* runs started so far
    faults,               \* injected I/O and browser errors so far
    collected_urls,       \* collect_post_urls: collected_urls
    collected_post_ids,   \* collect_post_urls: collected_post_ids
    before,               \* collect_post_urls: before
    consecutive_errors,   \* collect_post_urls: consecutive_errors
    last_save_count,      \* collect_post_urls: last_save_count
    url_list,             \* crawl_posts: url_list
    current_index,        \* crawl_posts: current_index
    index,                \* crawl_posts: the loop variable's next value
    all_posts_data,       \* self.all_posts_data
    total_crawled_count,  \* self.total_crawled_count
    consecutive_failures, \* crawl_posts: consecutive_failures
    completed_normally,   \* crawl_posts: completed_normally
    session,              \* the browser: "none", "partial", "open", "closed", "leaked"
    browser_page,         \* what self.page shows to the challenge detector
    hist                  \* history of the run, for stating the properties

vars == <<max_retries, max_concurrent, include_been_analyzed, concurrent,
          index_range, db, posts, tasks, semaphore, results, apc,
          comments_tree, comments, max_posts, api, stateFile, outFile, pc, run,
          faults, collected_urls,
          collected_post_ids, before, consecutive_errors, last_save_count,
          url_list, current_index, index, all_posts_data, total_crawled_count,
          consecutive_failures, completed_normally, session, browser_page, hist>>

commentVars == <<comments_tree, comments>>
crawlerVars == <<comments_tree, comments, max_posts, api, stateFile, outFile, pc,
                 run, faults, collected_urls, collected_post_ids, before,
                 consecutive_errors, last_save_count, url_list, current_index,
                 index, all_posts_data, total_crawled_count,
                 consecutive_failures, completed_normally, session,
                 browser_page, hist>>
analyzerVars == <<max_retries, max_concurrent, include_been_analyzed, concurrent,
                  index_range, db, posts, tasks, semaphore, results, apc>>
phase1Vars == <<collected_urls, collected_post_ids, before, consecutive_errors,
                last_save_count>>
phase2Vars == <<url_list, current_index, index, all_posts_data,
                consecutive_failures, completed_normally, session, browser_page>>

(* ------------------------- the search API ------------------------------ *)
\* The page of an API that ignores the cursor: always the newest items.
FixedPageIgnoringCursor(stream, bef, size) ==
    SubSeq(stream, 1, Min(size, Len(stream)))

\* The page of a well-behaved API: at most size items older than before.
FixedPage(stream, bef, size) ==
    LET older == SelectSeq(stream, LAMBDA p : bef = None \/ p.created_utc < bef)
    IN  SubSeq(older, 1, Min(size, Len(older)))

\* How a sloppy API may read the cursor: as given, one second late (items of
\* the cursor's own second come again), or not at all.
CursorReadings(bef) == IF bef = None THEN {None} ELSE {bef, bef + 1, None}

\* The pages a 200 response can carry.
ApiPages(bef, size) ==
    IF api.mode = "sloppy"
    THEN {FixedPage(api.stream, b, size) : b \in CursorReadings(bef)}
    ELSE {FixedPage(api.stream, bef, size)}

(* ------------------------- checkpoint store ---------------------------- *)
\* What a write of new over old leaves on disk.
WriteFile(old, new, w) ==
    CASE w = "ok" -> new
      [] w = "ioerr" -> old
      [] w = "kill_before" -> old
      [] w = "kill_mid" -> Partial

Kills(w) == w \in {"kill_before", "kill_mid"}

\* save_progress: the document written to the state file.
SaveProgress(ci, urls, total, cp) ==
    [st |-> "ok", current_post_index |-> ci, collected_urls_with_source |-> urls,
     total_crawled_count |-> total, url_collection_progress |-> cp]

\* An id collection that misses the last candidate.
IdsOfUrlsButLast(urls) ==
    {ExtractPostId(urls[i].url) : i \in 1..(Len(urls) - 1)} \ {None}

\* Lines 319-323 and 469-473: the ids _extract_post_id finds in the URLs.
IdsOfUrls(urls) ==
    {ExtractPostId(urls[i].url) : i \in 1..Len(urls)} \ {None}

\* save_url_collection_progress: the collection progress and the document.
SaveUrlCollectionProgress(urls, bef, total) ==
    SaveProgress(1, urls, total,
                 [has |-> TRUE, before_timestamp |-> bef,
                  collected_post_ids |-> IdsOfUrls(urls)])

Fresh(total) ==
    [current_index |-> 1, url_list |-> <<>>, is_collection_complete |-> FALSE,
     collection_progress |-> NoCp, total |-> total]

\* load_progress, lines 371-395: what a complete document gives.
LoadComplete(file) ==
         LET ci == file.current_post_index
             urls == file.collected_urls_with_source
             cp == file.url_collection_progress
             complete == Len(urls) >= max_posts
         IN  IF complete /\ ci <= Len(urls)
             THEN [current_index |-> ci, url_list |-> urls,
                   is_collection_complete |-> TRUE, collection_progress |-> cp,
                   total |-> file.total_crawled_count]
             ELSE IF ~complete
             THEN IF cp.has
                  THEN [current_index |-> 1, url_list |-> urls,
                        is_collection_complete |-> FALSE,
                        collection_progress |-> cp,
                        total |-> file.total_crawled_count]
                  ELSE Fresh(file.total_crawled_count)
             ELSE [current_index |-> 1, url_list |-> urls,
                   is_collection_complete |-> TRUE, collection_progress |-> cp,
                   total |-> file.total_crawled_count]

\* A load_progress that takes the fields of a cut-short write that reached
\* the disk.
LoadProgressOfPrefix(file, total) ==
    IF file.st = "ok" THEN LoadComplete(file)
    ELSE IF file.st = "partial" /\ hist.torn.has /\ hist.torn.new.st = "ok"
    THEN [current_index |-> hist.torn.new.current_post_index,
          url_list |-> hist.torn.new.collected_urls_with_source,
          is_collection_complete |-> FALSE, collection_progress |-> NoCp,
          total |-> total]
    ELSE Fresh(total)

\* load_progress: the returned tuple and self.total_crawled_count. json.load
\* raises on a missing or cut-short document (lines 367-370, 396-399).
LoadProgress(file, total) ==
    IF file.st # "ok" THEN Fresh(total) ELSE LoadComplete(file)

\* update_progress_index: the state file after the call.
UpdateProgressIndex(file, ci, total, w) ==
    IF file.st # "ok" THEN file
    ELSE WriteFile(file,
                   [file EXCEPT !.current_post_index = ci,
                                !.total_crawled_count = total], w)

(* ------------------------ history variables ---------------------------- *)
Range(q) == {q[i] : i \in 1..Len(q)}

NoTorn == [has |-> FALSE, old |-> NoFile, new |-> NoFile]

\* hist.torn remembers the last state-file write that a kill cut short.
TornAfter(old, new, w) ==
    IF w = "kill_mid" THEN [has |-> TRUE, old |-> old, new |-> new]
    ELSE IF w = "ok" THEN NoTorn
    ELSE hist.torn

(* --------------------- phase 1: collect_post_urls ---------------------- *)
\* crawler.py:525, the fields an item needs.
HasFields(post) ==
    post.id # None /\ post.created_utc \notin {None, Absent}

\* A dedup test that finds nothing.
IsDuplicateNever(post_id, ids) == FALSE

\* crawler.py:527, the dedup test.
IsDuplicate(post_id, ids) == post_id \in ids

\* crawler.py:516-538, the for loop over one page.
RECURSIVE ProcessItems(_, _, _)
ProcessItems(items, urls, ids) ==
    IF items = <<>> \/ Len(urls) >= max_posts
    THEN [urls |-> urls, ids |-> ids]
    ELSE LET post == Head(items)
         IN  IF HasFields(post) /\ ~IsDuplicate(post.id, ids)
             THEN ProcessItems(Tail(items),
                      Append(urls, [url |-> post.permalink,
                                    created_utc |-> post.created_utc]),
                      ids \cup {post.id})
             ELSE ProcessItems(Tail(items), urls, ids)

\* crawler.py:479-553, the while loop when no request fails and nothing stops
\* the run: the list one uninterrupted run returns.
RECURSIVE CollectToEnd(_, _, _, _)
CollectToEnd(stream, urls, ids, bef) ==
    IF Len(urls) >= max_posts THEN SubSeq(urls, 1, max_posts)
    ELSE LET page == FixedPage(stream, bef, Min(PageCap, max_posts - Len(urls)))
         IN  IF page = <<>> THEN urls
             ELSE LET r == ProcessItems(page, urls, ids)
                  IN  CollectToEnd(stream, r.urls, r.ids,
                                   page[Len(page)].created_utc)

\* A loop that stops one candidate short of the target.
TargetReachedOneShort(count) == count >= max_posts - 1

\* crawler.py:479, the while condition: the loop ends with the target reached.
TargetReached(count) == count >= max_posts

\* crawler.py:548, when the loop saves its progress.
SaveDue(count, last) ==
    count - last >= SaveEvery \/ count % SaveMod = 0

\* A resume that starts with an empty dedup set.
InitialIdsForgotten(existing_urls, collection_progress) == {}

\* crawler.py:454-473, the dedup set a run starts with.
InitialIds(existing_urls, collection_progress) ==
    IF collection_progress.has
    THEN collection_progress.collected_post_ids
    ELSE IdsOfUrls(existing_urls)

\* crawler.py:461, the cursor a run starts with.
InitialBefore(collection_progress) ==
    IF collection_progress.has THEN collection_progress.before_timestamp
    ELSE None

ResetPhase1 ==
    /\ collected_urls' = <<>>
    /\ collected_post_ids' = {}
    /\ before' = None
    /\ consecutive_errors' = 0
    /\ last_save_count' = 0

ResetPhase2 ==
    /\ url_list' = <<>>
    /\ current_index' = 1
    /\ index' = 0
    /\ all_posts_data' = <<>>
    /\ consecutive_failures' = 0
    /\ completed_normally' = FALSE
    /\ session' = "none"
    /\ browser_page' = NoPage

\* The process is gone: nothing of its memory is left.
Die ==
    /\ pc' = "killed"
    /\ ResetPhase1
    /\ ResetPhase2
    /\ total_crawled_count' = 0

\* hist when the process ends: what the run did is forgotten.
Ended(h) == [h EXCEPT !.fetched = {}, !.outFailed = FALSE,
                      !.stateFailed = FALSE, !.dup = "no", !.loaded = 0,
                      !.intr = 0, !.challenged = 0, !.lastPage = -1,
                      !.ceiling = FALSE, !.nHttp = 0, !.nTimeout = 0]

\* hist when phase 1 is over.
Collected(h) == [h EXCEPT !.dup = "no", !.loaded = 0, !.lastPage = -1,
                          !.ceiling = FALSE, !.nHttp = 0, !.nTimeout = 0]

\* Whether the loop over page skips an item as a duplicate: "resumed" when its
\* id came with the loaded checkpoint, "page" when this run collected it.
DupSeen(page, urls, ids, loaded, was) ==
    LET skipped == {i \in 1..Len(page) :
                      /\ HasFields(page[i])
                      /\ page[i].id \in ids
                      /\ Len(ProcessItems(SubSeq(page, 1, i - 1), urls, ids).urls)
                           < max_posts}
        old == {ExtractPostId(urls[j].url) : j \in 1..Min(loaded, Len(urls))}
    IN  IF was = "resumed" \/ \E i \in skipped : page[i].id \in old
        THEN "resumed"
        ELSE IF skipped # {} THEN "page" ELSE was

\* Outcomes of a file write: an injected error needs budget, a kill needs none.
CanWrite(w, writes) ==
    \/ w = "ok"
    \/ writes /\ w = "ioerr" /\ faults < api.errors
    \/ writes /\ w = "kill_mid"

FaultsAfter(w) == IF w = "ioerr" THEN faults + 1 ELSE faults

\* crawl_posts, lines 718-743: a new process loads the checkpoint and branches.
StartRun ==
    /\ pc \in {"idle", "done", "killed"}
    /\ run < MaxRuns
    /\ run' = run + 1
    /\ LET lp == LoadProgress(stateFile, 0)
       IN  /\ total_crawled_count' = lp.total
           /\ current_index' = lp.current_index
           /\ IF lp.is_collection_complete
              THEN /\ pc' = "init_browser"
                   /\ url_list' = lp.url_list
                   /\ ResetPhase1
              ELSE /\ pc' = "collect"
                   /\ url_list' = <<>>
                   /\ collected_urls' = lp.url_list
                   /\ collected_post_ids' =
                        InitialIds(lp.url_list, lp.collection_progress)
                   /\ before' = InitialBefore(lp.collection_progress)
                   /\ consecutive_errors' = 0
                   /\ last_save_count' = Len(lp.url_list)
    /\ index' = 0
    /\ all_posts_data' = <<>>
    /\ consecutive_failures' = 0
    /\ completed_normally' = FALSE
    /\ session' = "none"
    /\ browser_page' = NoPage
    /\ hist' = LET lp == LoadProgress(stateFile, 0)
                IN  [hist EXCEPT !.torn = NoTorn, !.dup = "no",
                                 !.hard = @ \/ pc = "killed",
                                 !.loaded = IF lp.is_collection_complete THEN 0
                                            ELSE Len(lp.url_list)]
    /\ UNCHANGED <<analyzerVars, commentVars, max_posts, api, stateFile, outFile, faults>>

\* crawler.py:496-503, a response whose status is not 200.
ApiHttpError ==
    /\ pc = "collect"
    /\ consecutive_errors' = consecutive_errors + 1
    /\ pc' = IF consecutive_errors + 1 >= HttpCeiling THEN "p1_final" ELSE "collect"
    /\ hist' = [hist EXCEPT !.nHttp = @ + 1,
                            !.ceiling = consecutive_errors + 1 >= HttpCeiling]
    /\ UNCHANGED <<analyzerVars, commentVars, max_posts, api, stateFile, outFile, run, faults,
                   collected_urls, collected_post_ids, before, last_save_count,
                   phase2Vars, total_crawled_count>>

\* A handler of a failed request that forgets the cursor.
ApiTimeoutForgettingCursor ==
    /\ pc = "collect"
    /\ consecutive_errors' = consecutive_errors + 1
    /\ before' = None
    /\ pc' = IF consecutive_errors + 1 >= TimeoutCeiling THEN "p1_final" ELSE "collect"
    /\ hist' = [hist EXCEPT !.nTimeout = @ + 1,
                            !.ceiling = consecutive_errors + 1 >= TimeoutCeiling]
    /\ UNCHANGED <<analyzerVars, commentVars, max_posts, api, stateFile, outFile, run, faults,
                   collected_urls, collected_post_ids, last_save_count,
                   phase2Vars, total_crawled_count>>

\* crawler.py:555-576, a timeout, a connection error or an undecodable body.
ApiTimeout ==
    /\ pc = "collect"
    /\ consecutive_errors' = consecutive_errors + 1
    /\ pc' = IF consecutive_errors + 1 >= TimeoutCeiling THEN "p1_final" ELSE "collect"
    /\ hist' = [hist EXCEPT !.nTimeout = @ + 1,
                            !.ceiling = consecutive_errors + 1 >= TimeoutCeiling]
    /\ UNCHANGED <<analyzerVars, commentVars, max_posts, api, stateFile, outFile, run, faults,
                   collected_urls, collected_post_ids, before, last_save_count,
                   phase2Vars, total_crawled_count>>

\* crawler.py:505-553 and 580-586, a 200 response carrying page.
ApiOk(w) ==
    /\ pc = "collect"
    /\ \E page \in ApiPages(before, Min(PageCap, max_posts - Len(collected_urls))) :
       LET r == ProcessItems(page, collected_urls, collected_post_ids)
           keyError == page # <<>> /\ page[Len(page)].created_utc = Absent
           saves == page # <<>> /\ ~keyError
                    /\ SaveDue(Len(r.urls), last_save_count)
           doc == SaveUrlCollectionProgress(r.urls, page[Len(page)].created_utc,
                                            total_crawled_count)
       IN  /\ CanWrite(w, saves)
           /\ faults' = FaultsAfter(w)
           /\ stateFile' = IF saves THEN WriteFile(stateFile, doc, w) ELSE stateFile
           /\ hist' = LET h == IF saves
                               THEN [hist EXCEPT
                                       !.torn = TornAfter(stateFile, doc, w)]
                               ELSE hist
                      IN  IF Kills(w) THEN Ended(h)
                          ELSE [h EXCEPT
                                 !.dup = DupSeen(page, collected_urls,
                                           collected_post_ids, hist.loaded, hist.dup),
                                 !.lastPage = Len(page),
                                 !.ceiling = keyError /\ consecutive_errors + 1
                                                          >= GenericCeiling,
                                 !.nHttp = IF page = <<>> \/ keyError THEN @ ELSE 0,
                                 !.nTimeout = IF page = <<>> \/ keyError THEN @
                                              ELSE 0]
           /\ IF Kills(w) THEN Die
              ELSE /\ collected_urls' = IF page = <<>> THEN collected_urls ELSE r.urls
                   /\ collected_post_ids' =
                        IF page = <<>> THEN collected_post_ids ELSE r.ids
                   /\ before' = IF page = <<>> \/ keyError THEN before
                                ELSE page[Len(page)].created_utc
                   /\ consecutive_errors' =
                        IF page = <<>> THEN consecutive_errors
                        ELSE IF keyError THEN consecutive_errors + 1
                        ELSE 0
                   /\ last_save_count' = IF saves THEN Len(r.urls) ELSE last_save_count
                   /\ pc' = IF \/ page = <<>>
                               \/ keyError /\ consecutive_errors + 1 >= GenericCeiling
                               \/ TargetReached(Len(r.urls))
                            THEN "p1_final" ELSE "collect"
                   /\ UNCHANGED <<phase2Vars, total_crawled_count>>
    /\ UNCHANGED <<analyzerVars, commentVars, max_posts, api, outFile, run>>

\* crawler.py:577-592, KeyboardInterrupt in the loop, after k items of page.
InterruptCollect(w) ==
    /\ pc = "collect"
    /\ \E page \in ApiPages(before, Min(PageCap, max_posts - Len(collected_urls))),
          k \in 0..PageCap :
       LET r == ProcessItems(SubSeq(page, 1, Min(k, Len(page))), collected_urls,
                             collected_post_ids)
           doc == SaveUrlCollectionProgress(r.urls, before, total_crawled_count)
       IN  /\ CanWrite(w, TRUE)
           /\ faults' = FaultsAfter(w)
           /\ stateFile' = WriteFile(stateFile, doc, w)
           /\ hist' = Ended([hist EXCEPT !.torn = TornAfter(stateFile, doc, w)])
           /\ IF Kills(w) THEN Die
              ELSE /\ collected_urls' = r.urls
                   /\ collected_post_ids' = r.ids
                   /\ pc' = "finally"
                   /\ UNCHANGED <<before, consecutive_errors, last_save_count,
                                  phase2Vars, total_crawled_count>>
    /\ UNCHANGED <<analyzerVars, commentVars, max_posts, api, outFile, run>>

\* crawler.py:594-603, the final save and the return of collect_post_urls.
CollectFinish(w) ==
    /\ pc = "p1_final"
    /\ LET saves == \/ Len(collected_urls) # last_save_count
                    \/ Len(collected_urls) >= max_posts
           doc == SaveUrlCollectionProgress(collected_urls, before,
                                            total_crawled_count)
       IN  /\ CanWrite(w, saves)
           /\ faults' = FaultsAfter(w)
           /\ stateFile' = IF saves THEN WriteFile(stateFile, doc, w) ELSE stateFile
           /\ hist' = LET h == IF saves
                               THEN [hist EXCEPT
                                       !.torn = TornAfter(stateFile, doc, w)]
                               ELSE hist
                      IN  IF Kills(w) THEN Ended(h) ELSE h
           /\ IF Kills(w) THEN Die
              ELSE /\ url_list' = SubSeq(collected_urls, 1,
                                         Min(max_posts, Len(collected_urls)))
                   /\ pc' = "p1_return"
                   /\ UNCHANGED <<phase1Vars, current_index, index, all_posts_data,
                                  consecutive_failures, completed_normally, session, browser_page,
                                  total_crawled_count>>
    /\ UNCHANGED <<analyzerVars, commentVars, max_posts, api, outFile, run>>

\* crawl_posts, lines 731-739: the caller of collect_post_urls.
PhaseOneReturn(w) ==
    /\ pc = "p1_return"
    /\ LET doc == SaveProgress(1, url_list, total_crawled_count, NoCp)
           saves == url_list # <<>>
       IN  /\ CanWrite(w, saves)
           /\ faults' = FaultsAfter(w)
           /\ stateFile' = IF saves THEN WriteFile(stateFile, doc, w) ELSE stateFile
           /\ hist' = Collected(IF saves
                                THEN [hist EXCEPT
                                        !.torn = TornAfter(stateFile, doc, w)]
                                ELSE hist)
           /\ IF Kills(w) THEN Die
              ELSE /\ pc' = IF saves THEN "init_browser" ELSE "finally"
                   /\ current_index' = 1
                   /\ ResetPhase1
                   /\ UNCHANGED <<url_list, index, all_posts_data,
                                  consecutive_failures, completed_normally, session, browser_page,
                                  total_crawled_count>>
    /\ UNCHANGED <<analyzerVars, commentVars, max_posts, api, outFile, run>>

(* ------------------------ phase 2: crawl_posts ------------------------- *)
\* save_data, lines 408-415: the records already in the output file.
ExistingData(out) == IF out.st = "ok" THEN out.recs ELSE <<>>

\* save_data, line 429: the pending batch after a successful write.
PendingAfterFlush(pending) == <<>>

\* save_data, line 432: the index handed to update_progress_index.
IndexToPersist(ci) == ci

\* A save_data that advances the checkpoint although the output write failed.
SaveDataIndexAnyway(ci, pending, total, out, state, wo, ws) ==
    IF pending = <<>>
    THEN [out |-> out, state |-> state, pending |-> pending, total |-> total,
          dead |-> FALSE]
    ELSE IF wo = "ioerr"
    THEN [out |-> out,
          state |-> UpdateProgressIndex(state, ci, total + Len(pending), "ok"),
          pending |-> pending, total |-> total, dead |-> FALSE]
    ELSE IF wo = "kill_mid"
    THEN [out |-> Partial, state |-> state, pending |-> pending, total |-> total,
          dead |-> TRUE]
    ELSE [out |-> [st |-> "ok", recs |-> ExistingData(out) \o pending],
          state |-> IF ws = "intr" THEN state
                    ELSE UpdateProgressIndex(state, ci, total + Len(pending), ws),
          pending |-> IF ws = "intr" THEN pending ELSE <<>>,
          total |-> total + Len(pending),
          dead |-> Kills(ws)]

\* save_data: the files and the fields of self after the call. wo and ws are
\* the outcomes of the output write and of the state-file write; ws = "intr"
\* is a KeyboardInterrupt raised after the output write, in lines 425-427,
\* which the except clause of line 434 does not catch.
SaveData(ci, pending, total, out, state, wo, ws) ==
    IF pending = <<>> \/ wo = "ioerr"
    THEN [out |-> out, state |-> state, pending |-> pending, total |-> total,
          dead |-> FALSE]
    ELSE IF wo = "kill_mid"
    THEN [out |-> Partial, state |-> state, pending |-> pending, total |-> total,
          dead |-> TRUE]
    ELSE IF ws = "intr"
    THEN [out |-> [st |-> "ok", recs |-> ExistingData(out) \o pending],
          state |-> state, pending |-> pending, total |-> total + Len(pending),
          dead |-> FALSE]
    ELSE [out |-> [st |-> "ok", recs |-> ExistingData(out) \o pending],
          state |-> UpdateProgressIndex(state, IndexToPersist(ci),
                                        total + Len(pending), ws),
          pending |-> PendingAfterFlush(pending),
          total |-> total + Len(pending),
          dead |-> Kills(ws)]

\* The outcomes a call of save_data can have.
CanSave(wo, ws, flushes, state) ==
    /\ wo \in {"ok", "ioerr", "kill_mid"}
    /\ ws \in {"ok", "ioerr", "kill_mid", "kill_before", "intr"}
    /\ ~flushes => wo = "ok" /\ ws = "ok"
    /\ wo # "ok" => ws = "ok"
    /\ ws \in {"ioerr", "kill_mid"} => state.st = "ok"
    /\ (wo = "ioerr" \/ ws = "ioerr") => faults < api.errors

\* hist after a call of save_data.
HistAfterSave(h, ci, total, pending, flushes, wo, ws) ==
    IF ~flushes THEN [h EXCEPT !.gap = FALSE]
    ELSE [h EXCEPT !.outFailed = h.outFailed \/ wo = "ioerr",
                   !.stateFailed = h.stateFailed \/ (wo = "ok" /\ ws = "ioerr"),
                   !.durable = IF wo = "ok"
                               THEN h.durable \cup Range(ExistingData(outFile))
                                              \cup Range(pending)
                               ELSE h.durable,
                   !.gap = (wo = "ok" /\ ws = "kill_before"),
                   !.hard = h.hard \/ ws = "intr",
                   !.torn = IF wo = "ok" /\ stateFile.st = "ok"
                            THEN TornAfter(stateFile,
                                   [stateFile EXCEPT
                                      !.current_post_index = IndexToPersist(ci),
                                      !.total_crawled_count = total + Len(pending)],
                                   ws)
                            ELSE h.torn]

\* A driver that starts the loop of phase 2 at the first candidate.
InitBrowserFromStart(ok) ==
    /\ pc = "init_browser"
    /\ ok \/ faults < api.errors
    /\ faults' = IF ok THEN faults ELSE faults + 1
    /\ session' = IF ok THEN "open" ELSE "partial"
    /\ index' = 0
    /\ pc' = IF ok THEN "fetch" ELSE "finally"
    /\ UNCHANGED <<analyzerVars, commentVars, max_posts, api, stateFile, outFile, run, phase1Vars,
                   url_list, current_index, all_posts_data, total_crawled_count,
                   consecutive_failures, completed_normally, browser_page, hist>>

\* crawl_posts, lines 746-754: init_browser (lines 79-112) and the start of
\* the loop at index current_index - 1.
InitBrowser(ok) ==
    /\ pc = "init_browser"
    /\ ok \/ faults < api.errors
    /\ faults' = IF ok THEN faults ELSE faults + 1
    /\ session' = IF ok THEN "open" ELSE "partial"
    /\ index' = current_index - 1
    /\ pc' = IF ok THEN "fetch" ELSE "finally"
    /\ UNCHANGED <<analyzerVars, commentVars, max_posts, api, stateFile, outFile, run, phase1Vars, url_list,
                   current_index, all_posts_data, total_crawled_count,
                   consecutive_failures, completed_normally, browser_page, hist>>

\* The record fetch_post_json builds for a candidate (line 635); run tells
\* the fetches of different runs apart.
PostData(url_item) == [post_id |-> ExtractPostId(url_item.url), run |-> run]

\* A loop that flushes one record later.
FlushDueLate(pending) == Len(pending) % (BatchSize + 1) = 0

\* crawl_posts, line 768: when the loop flushes.
FlushDue(pending) == Len(pending) % BatchSize = 0

\* _check_and_handle_captcha_or_login, lines 116-165: whether the detector
\* finds a challenge. A visible selector match decides first; without a <pre>
\* element line 150 raises AttributeError, which line 195 catches, and the
\* keywords are never looked at.
Detect(p) ==
    IF p.sel THEN TRUE
    ELSE IF p.pre = "none" THEN FALSE
    ELSE IF p.pre \in {"keys", "post"} THEN FALSE
    ELSE p.kw

\* fetch_post_json, lines 621-671: what it returns for the page it reads.
FetchResult(p) == IF p.pre = "post" THEN "ok" ELSE "none"

\* crawl_posts, lines 755-757, and fetch_post_json, lines 611-615: the loop
\* takes the next candidate and the browser goes to its JSON URL. A goto that
\* raises ends like a page without <pre>: fetch_post_json returns None.
Navigate(p) ==
    /\ pc = "fetch"
    /\ pc' = "inspect"
    /\ current_index' = index + 1
    /\ browser_page' = p
    /\ UNCHANGED <<analyzerVars, commentVars, max_posts, api, stateFile, outFile, run, faults, phase1Vars,
                   url_list, index, all_posts_data, total_crawled_count,
                   consecutive_failures, completed_normally, session, hist>>

\* A detector that saves the checkpoint before it waits.
ChallengeSaving ==
    /\ pc = "inspect"
    /\ Detect(browser_page)
    /\ pc' = "blocked"
    /\ stateFile' = UpdateProgressIndex(stateFile, current_index,
                                        total_crawled_count, "ok")
    /\ hist' = [hist EXCEPT !.challenged = current_index]
    /\ UNCHANGED <<analyzerVars, commentVars, max_posts, api, outFile, run, faults, phase1Vars,
                   phase2Vars, total_crawled_count>>

\* _check_and_handle_captcha_or_login, lines 167-173: the detector is
\* positive and the process waits in input().
Challenge ==
    /\ pc = "inspect"
    /\ Detect(browser_page)
    /\ pc' = "blocked"
    /\ hist' = [hist EXCEPT !.challenged = current_index]
    /\ UNCHANGED <<analyzerVars, commentVars, max_posts, api, stateFile, outFile, run, faults, phase1Vars,
                   phase2Vars, total_crawled_count>>

\* A resumption that goes on with the candidate after the blocked one.
OperatorResumeSkipping(p) ==
    /\ pc = "blocked"
    /\ index + 1 < Len(url_list)
    /\ pc' = "fetch"
    /\ index' = index + 1
    /\ browser_page' = NoPage
    /\ UNCHANGED <<analyzerVars, commentVars, max_posts, api, stateFile, outFile, run, faults, phase1Vars,
                   url_list, current_index, all_posts_data, total_crawled_count,
                   consecutive_failures, completed_normally, session, hist>>

\* _check_and_handle_captcha_or_login, lines 174-193: the operator enters
\* 'c' and the browser goes to current_url again, which ends on page p (any
\* other input prompts again and changes nothing). The detector does not look
\* at the new page.
OperatorResume(p) ==
    /\ pc = "blocked"
    /\ pc' = "reloaded"
    /\ browser_page' = p
    /\ UNCHANGED <<analyzerVars, commentVars, max_posts, api, stateFile, outFile, run, faults, phase1Vars,
                   url_list, current_index, index, all_posts_data,
                   total_crawled_count, consecutive_failures, completed_normally,
                   session, hist>>

\* A ceiling test that lets one more failure pass.
HaltDueLater(failures) == failures > FetchCeiling

\* crawl_posts, lines 772 and 783: the test that stops the loop.
HaltDue(failures) == failures >= FetchCeiling

\* crawl_posts, lines 754-786: the rest of one iteration of the loop, after
\* the detector let the page pass or the operator resumed. delayErr says
\* that wait_for_timeout raised. An interrupt raised in save_data leaves the
\* loop for the finally block (line 793).
Fetch(wo, ws, delayErr) ==
    /\ pc \in {"inspect", "reloaded"}
    /\ pc = "inspect" => ~Detect(browser_page)
    /\ LET ci == index + 1
           res == FetchResult(browser_page)
           post_data == PostData(url_list[ci])
           pending == IF res = "ok" THEN Append(all_posts_data, post_data)
                      ELSE all_posts_data
           flushes == res = "ok" /\ FlushDue(pending)
           sd == IF flushes
                 THEN SaveData(ci, pending, total_crawled_count, outFile,
                               stateFile, wo, ws)
                 ELSE [out |-> outFile, state |-> stateFile, pending |-> pending,
                       total |-> total_crawled_count, dead |-> FALSE]
           cf1 == IF res = "ok" THEN 0 ELSE consecutive_failures + 1
           break1 == res # "ok" /\ HaltDue(cf1)
           cf2 == IF delayErr THEN cf1 + 1 ELSE cf1
           break2 == delayErr /\ HaltDue(cf2)
       IN  /\ CanSave(wo, ws, flushes, stateFile)
           /\ delayErr => ~break1 /\ ~sd.dead /\ ws # "intr"
                          /\ faults + (IF wo = "ioerr" \/ ws = "ioerr" THEN 1 ELSE 0)
                             < api.errors
           /\ faults' = faults + (IF wo = "ioerr" \/ ws = "ioerr" THEN 1 ELSE 0)
                               + (IF delayErr THEN 1 ELSE 0)
           /\ outFile' = sd.out
           /\ stateFile' = sd.state
           /\ hist' = LET h == HistAfterSave(hist, ci, total_crawled_count,
                                             pending, flushes, wo, ws)
                      IN  IF sd.dead THEN Ended(h)
                          ELSE IF res = "ok"
                          THEN [h EXCEPT !.fetched = h.fetched \cup {post_data}]
                          ELSE h
           /\ IF sd.dead THEN Die
              ELSE /\ current_index' = ci
                   /\ index' = ci
                   /\ all_posts_data' = sd.pending
                   /\ total_crawled_count' = sd.total
                   /\ consecutive_failures' = cf2
                   /\ pc' = IF ws = "intr" THEN "finally"
                            ELSE IF break1 \/ break2 \/ ci >= Len(url_list)
                            THEN "after_loop" ELSE "fetch"
                   /\ browser_page' = NoPage
                   /\ UNCHANGED <<phase1Vars, url_list, completed_normally, session>>
    /\ UNCHANGED <<analyzerVars, commentVars, max_posts, api, run>>

\* crawl_posts, lines 788-791: the check after the loop.
AfterLoop ==
    /\ pc = "after_loop"
    /\ completed_normally' = (current_index >= Len(url_list))
    /\ pc' = "finally"
    /\ UNCHANGED <<analyzerVars, commentVars, max_posts, api, stateFile, outFile, run, faults, phase1Vars, url_list,
                   current_index, index, all_posts_data, total_crawled_count,
                   consecutive_failures, session, browser_page, hist>>

\* crawl_posts, lines 797-800: the flush of the finally block. An interrupt
\* raised in this call ends the process as the kill before the checkpoint
\* update does, so it is no outcome of its own here.
FinallySave(wo, ws) ==
    /\ pc = "finally"
    /\ ws # "intr"
    /\ LET flushes == all_posts_data # <<>>
           sd == SaveData(current_index, all_posts_data, total_crawled_count,
                          outFile, stateFile, wo, ws)
       IN  /\ CanSave(wo, ws, flushes, stateFile)
           /\ faults' = faults + (IF wo = "ioerr" \/ ws = "ioerr" THEN 1 ELSE 0)
           /\ outFile' = sd.out
           /\ stateFile' = sd.state
           /\ hist' = LET h == HistAfterSave(hist, current_index,
                                             total_crawled_count, all_posts_data,
                                             flushes, wo, ws)
                      IN  IF sd.dead THEN Ended(h) ELSE h
           /\ IF sd.dead THEN Die
              ELSE /\ all_posts_data' = sd.pending
                   /\ total_crawled_count' = sd.total
                   /\ pc' = "cleanup"
                   /\ UNCHANGED <<phase1Vars, url_list, current_index, index,
                                  consecutive_failures, completed_normally,
                                  session, browser_page>>
    /\ UNCHANGED <<analyzerVars, commentVars, max_posts, api, run>>

\* crawl_posts, lines 805-813, and cleanup, lines 815-825. closeErr says that
\* page.close() raised: the one try block of cleanup (lines 817-825) then
\* skips browser.close() and playwright.stop().
Cleanup(closeErr) ==
    /\ pc = "cleanup"
    /\ closeErr => session = "open" /\ faults < api.errors
    /\ faults' = IF closeErr THEN faults + 1 ELSE faults
    /\ stateFile' = IF completed_normally THEN NoFile ELSE stateFile
    /\ hist' = Ended([hist EXCEPT !.torn = NoTorn])
    /\ pc' = "done"
    /\ ResetPhase1
    /\ url_list' = <<>>
    /\ current_index' = 1
    /\ index' = 0
    /\ all_posts_data' = <<>>
    /\ consecutive_failures' = 0
    /\ completed_normally' = FALSE
    /\ session' = IF session = "none" THEN "none"
                  ELSE IF closeErr THEN "leaked" ELSE "closed"
    /\ browser_page' = NoPage
    /\ total_crawled_count' = 0
    /\ UNCHANGED <<analyzerVars, commentVars, max_posts, api, outFile, run>>

\* KeyboardInterrupt in crawl_posts outside the loops (line 793).
Interrupt ==
    /\ pc \in {"p1_final", "p1_return", "init_browser", "after_loop"}
    /\ pc' = "finally"
    /\ hist' = Collected(hist)
    /\ UNCHANGED <<analyzerVars, commentVars, max_posts, api, stateFile, outFile, run, faults, phase1Vars,
                   phase2Vars, total_crawled_count>>

\* KeyboardInterrupt in the fetch loop: during the fetch of the next candidate
\* (current_index is already advanced, line 757) or during the delay before it.
InterruptFetch(during) ==
    /\ pc = "fetch"
    /\ current_index' = IF during THEN index + 1 ELSE current_index
    /\ pc' = "finally"
    /\ hist' = [hist EXCEPT !.intr = IF during THEN index + 1 ELSE 0,
                            !.sig = TRUE]
    /\ UNCHANGED <<analyzerVars, commentVars, max_posts, api, stateFile, outFile, run, faults, phase1Vars, url_list,
                   index, all_posts_data, total_crawled_count,
                   consecutive_failures, completed_normally, session, browser_page>>

\* KeyboardInterrupt in fetch_post_json after the navigation: before or in
\* the detector, in input() (line 179), or after the re-navigation.
InterruptChallenge ==
    /\ pc \in {"inspect", "blocked", "reloaded"}
    /\ pc' = "finally"
    /\ browser_page' = NoPage
    /\ hist' = [hist EXCEPT !.intr = current_index, !.sig = TRUE]
    /\ UNCHANGED <<analyzerVars, commentVars, max_posts, api, stateFile, outFile, run, faults, phase1Vars,
                   url_list, current_index, index, all_posts_data,
                   total_crawled_count, consecutive_failures, completed_normally,
                   session>>

\* The process is killed between two steps.
Kill ==
    /\ pc \in {"collect", "p1_final", "p1_return", "init_browser", "fetch",
               "inspect", "blocked", "reloaded", "after_loop", "finally",
               "cleanup"}
    /\ Die
    /\ hist' = Ended(hist)
    /\ UNCHANGED <<analyzerVars, commentVars, max_posts, api, stateFile, outFile, run, faults>>

(* ----------------------------- comments -------------------------------- *)
RECURSIVE ParseCommentCountingAll(_)
RECURSIVE ParseCommentsCountingAll(_)
\* A _parse_comment whose reply_count is the length of the raw children list.
ParseCommentCountingAll(comment_data) ==
    IF comment_data.kind = "more" THEN <<>>
    ELSE LET replies_raw == comment_data.data.replies
             replies == IF replies_raw.dict
                        THEN ParseCommentsCountingAll(replies_raw.children)
                        ELSE <<>>
         IN  <<[text |-> comment_data.data.body, replies |-> replies,
                reply_count |-> Len(replies_raw.children)]>>

ParseCommentsCountingAll(children) ==
    IF children = <<>> THEN <<>>
    ELSE ParseCommentCountingAll(Head(children))
         \o ParseCommentsCountingAll(Tail(children))

RECURSIVE ParseComment(_)
RECURSIVE ParseComments(_)
\* _parse_comment, lines 673-700. The result is <<>> for None and the
\* one-element sequence of the parsed comment otherwise.
ParseComment(comment_data) ==
    IF comment_data.kind = "more" THEN <<>>
    ELSE LET replies_raw == comment_data.data.replies
             replies == IF replies_raw.dict
                        THEN ParseComments(replies_raw.children)
                        ELSE <<>>
         IN  <<[text |-> comment_data.data.body, replies |-> replies,
                reply_count |-> Len(replies)]>>

\* The loops of lines 661-665 and 693-696: every child is parsed and a
\* result that is not None is appended.
ParseComments(children) ==
    IF children = <<>> THEN <<>>
    ELSE ParseComment(Head(children)) \o ParseComments(Tail(children))

\* fetch_post_json, lines 631 and 661-665, for the comment listing of the page.
ParseCommentTree ==
    /\ pc = "parse"
    /\ pc' = "parsed"
    /\ comments' = ParseComments(comments_tree)
    /\ UNCHANGED <<analyzerVars, comments_tree, max_posts, api, stateFile, outFile,
                   run, faults, phase1Vars, phase2Vars, total_crawled_count, hist>>

(* ------------------------- llm_analyzer.py ----------------------------- *)
\* A row of the posts table: is_valid and llm_analyze_result, which is "NULL",
\* "old" (stored before this call) or "new" (stored by this call).
Row(is_valid, llm_analyze_result) ==
    [is_valid |-> is_valid, llm_analyze_result |-> llm_analyze_result]

Rows == {Row(TRUE, "NULL"), Row(TRUE, "old"), Row(FALSE, "NULL")}

\* What one LLM call gives: sdk says whether _call_sdk succeeded, json what
\* json.loads finds in the content ("none": nothing that parses, "object": a
\* JSON object, "other": a JSON array, number, string or null), codes whether
\* the category codes and names of the object agree with the taxonomy.
Reply(sdk, json, codes) == [sdk |-> sdk, json |-> json, codes |-> codes]

Replies == {Reply("error", "none", FALSE), Reply("ok", "none", FALSE),
            Reply("ok", "object", TRUE), Reply("ok", "object", FALSE),
            Reply("ok", "other", FALSE)}

\* get_posts_from_db, line 77: the default of include_been_analyzed.
DefaultIncludeBeenAnalyzed == FALSE

\* get_posts_from_db with index_range, lines 92-95 and 103-105: the valid rows of the
\* range, without those that have a result unless include is set, ordered by
\* index_in_list.
GetPostsFromDb(rows, range, include) ==
    SelectSeq([i \in 1..DbPosts |-> i],
              LAMBDA i : /\ rows[i].is_valid
                         /\ range[1] <= i /\ i <= range[2]
                         /\ (include \/ rows[i].llm_analyze_result = "NULL"))

\* analyze_posts_from_db, line 493: the call of get_posts_from_db.
SelectedPosts(rows, range, include) ==
    GetPostsFromDb(rows, range, DefaultIncludeBeenAnalyzed)

\* _parse_json_response, lines 386-418: "parsed" for (True, data, ""),
\* "failed" for (False, None, error). data.get of validate_and_return raises
\* AttributeError on a JSON value that is no object, and the except clauses
\* of lines 401, 408 and 415 catch json.JSONDecodeError only: "raised".
ParseJsonResponse(response) ==
    CASE response.json = "none" -> "failed"
      [] response.json = "other" -> "raised"
      [] response.json = "object" -> IF response.codes THEN "parsed" ELSE "failed"

\* The call succeeded and its response passes the taxonomy validation.
Passes(reply) == reply.sdk = "ok" /\ reply.json = "object" /\ reply.codes

\* A task before it runs: calls counts its LLM calls, passed tells that one of
\* them passed, saved that _save_result_to_db was called.
NewTask == [st |-> "waiting", attempt |-> 0, calls |-> 0, passed |-> FALSE,
            saved |-> FALSE, success |-> FALSE]

\* The task returned its result dictionary.
Returned(t, success) == [t EXCEPT !.st = "returned", !.success = success]

\* _save_result_to_db, lines 160-192: the table after the call; a failed
\* update is logged and leaves the table as it was.
SaveResultToDb(rows, post_id, ok) ==
    IF ok THEN [rows EXCEPT ![post_id].llm_analyze_result = "new"] ELSE rows

\* The result dictionary of a task.
Result(post_id, t) == [post_id |-> post_id, success |-> t.success]

\* results after task i returned t: the serial loop appends (line 526).
ResultsAfter(i, t) ==
    IF concurrent THEN results ELSE Append(results, Result(posts[i], t))

\* The tasks after task i raised: asyncio.run cancels what gather left
\* running (line 512); the serial loop is left by the exception.
Cancelled(ts, i) ==
    [j \in DOMAIN ts |->
       IF j = i THEN [ts[j] EXCEPT !.st = "raised"]
       ELSE IF ts[j].st = "returned" THEN ts[j]
       ELSE [ts[j] EXCEPT !.st = "cancelled"]]

\* analyze_posts_from_db, lines 493-509: the selection and the start.
SelectPosts ==
    /\ apc = "start"
    /\ posts' = SelectedPosts(db, index_range, include_been_analyzed)
    /\ tasks' = [i \in 1..Len(posts') |-> NewTask]
    /\ semaphore' = IF concurrent /\ posts' # <<>> THEN max_concurrent ELSE 0
    /\ apc' = IF posts' = <<>> THEN "returned" ELSE "running"
    /\ UNCHANGED <<max_retries, max_concurrent, include_been_analyzed, concurrent,
                   index_range, db, results, crawlerVars>>

\* analyze_post_async, line 331, and the serial loop, lines 521-525: task i
\* starts its first call, with a permit of the semaphore in concurrent mode,
\* after the tasks before it in serial mode.
StartTask(i) ==
    /\ apc = "running"
    /\ i \in DOMAIN tasks
    /\ tasks[i].st = "waiting"
    /\ IF concurrent THEN semaphore > 0
       ELSE \A j \in 1..(i - 1) : tasks[j].st = "returned"
    /\ semaphore' = IF concurrent THEN semaphore - 1 ELSE semaphore
    /\ tasks' = [tasks EXCEPT ![i].st = "calling"]
    /\ UNCHANGED <<max_retries, max_concurrent, include_been_analyzed, concurrent,
                   index_range, db, posts, results, apc, crawlerVars>>

\* analyze_post, lines 284-314, and analyze_post_async, lines 340-373: one
\* LLM call of task i returns reply; saveOk is the outcome of the update.
LlmCall(i, reply, saveOk) ==
    /\ apc = "running"
    /\ i \in DOMAIN tasks
    /\ tasks[i].st = "calling"
    /\ LET t == [tasks[i] EXCEPT !.calls = @ + 1, !.passed = @ \/ Passes(reply)]
           parsed == IF reply.sdk = "ok" THEN ParseJsonResponse(reply) ELSE "none"
           last == t.attempt >= max_retries - 1
           release == IF concurrent THEN semaphore + 1 ELSE semaphore
       IN  CASE reply.sdk = "error" ->
                  /\ saveOk
                  /\ tasks' = [tasks EXCEPT ![i] = [t EXCEPT !.st = "sleeping"]]
                  /\ UNCHANGED <<db, semaphore, results, apc>>
             [] parsed = "parsed" ->
                  LET r == Returned([t EXCEPT !.saved = TRUE], TRUE)
                  IN  /\ db' = SaveResultToDb(db, posts[i], saveOk)
                      /\ tasks' = [tasks EXCEPT ![i] = r]
                      /\ semaphore' = release
                      /\ results' = ResultsAfter(i, r)
                      /\ apc' = apc
             [] parsed = "failed" /\ ~last ->
                  /\ saveOk
                  /\ tasks' = [tasks EXCEPT ![i] = [t EXCEPT !.st = "sleeping"]]
                  /\ UNCHANGED <<db, semaphore, results, apc>>
             [] parsed = "failed" /\ last ->
                  /\ saveOk
                  /\ tasks' = [tasks EXCEPT ![i] = Returned(t, FALSE)]
                  /\ semaphore' = release
                  /\ results' = ResultsAfter(i, Returned(t, FALSE))
                  /\ UNCHANGED <<db, apc>>
             [] parsed = "raised" ->
                  /\ saveOk
                  /\ tasks' = Cancelled([tasks EXCEPT ![i] = t], i)
                  /\ semaphore' = release
                  /\ apc' = "raised"
                  /\ UNCHANGED <<db, results>>
    /\ UNCHANGED <<max_retries, max_concurrent, include_been_analyzed, concurrent,
                   index_range, posts, crawlerVars>>

\* The sleep before the next attempt ends (lines 291-292, 314, 350-351,
\* 373): the loop goes on, or ends when this was the last attempt.
Wake(i) ==
    /\ apc = "running"
    /\ i \in DOMAIN tasks
    /\ tasks[i].st = "sleeping"
    /\ LET t == tasks[i]
       IN  IF t.attempt + 1 < max_retries
           THEN /\ tasks' = [tasks EXCEPT ![i] = [t EXCEPT !.st = "calling",
                                                           !.attempt = @ + 1]]
                /\ UNCHANGED <<semaphore, results>>
           ELSE /\ tasks' = [tasks EXCEPT ![i] = Returned(t, FALSE)]
                /\ semaphore' = IF concurrent THEN semaphore + 1 ELSE semaphore
                /\ results' = ResultsAfter(i, Returned(t, FALSE))
    /\ UNCHANGED <<max_retries, max_concurrent, include_been_analyzed, concurrent,
                   index_range, db, posts, apc, crawlerVars>>

\* analyze_posts_from_db, lines 512-517 and 529-532: every task returned;
\* gather gives the results in the order of the tasks.
ReturnResults ==
    /\ apc = "running"
    /\ \A i \in DOMAIN tasks : tasks[i].st = "returned"
    /\ results' = IF concurrent
                  THEN [i \in DOMAIN tasks |-> Result(posts[i], tasks[i])]
                  ELSE results
    /\ apc' = "returned"
    /\ UNCHANGED <<max_retries, max_concurrent, include_been_analyzed, concurrent,
                   index_range, db, posts, tasks, semaphore, crawlerVars>>

(* --------------------------- specifications ---------------------------- *)
\* RedditCrawler.__init__: the crawler before crawl_posts, with no file on disk.
InitCrawler ==
    /\ stateFile = NoFile
    /\ outFile = NoFile
    /\ run = 0
    /\ faults = 0
    /\ collected_urls = <<>>
    /\ collected_post_ids = {}
    /\ before = None
    /\ consecutive_errors = 0
    /\ last_save_count = 0
    /\ url_list = <<>>
    /\ current_index = 1
    /\ index = 0
    /\ all_posts_data = <<>>
    /\ total_crawled_count = 0
    /\ consecutive_failures = 0
    /\ completed_normally = FALSE
    /\ session = "none"
    /\ browser_page = NoPage
    /\ hist = [fetched |-> {}, outFailed |-> FALSE, stateFailed |-> FALSE,
               gap |-> FALSE, torn |-> NoTorn, dup |-> "no", loaded |-> 0,
               durable |-> {}, intr |-> 0, challenged |-> 0, lastPage |-> -1,
               ceiling |-> FALSE, nHttp |-> 0, nTimeout |-> 0,
               sig |-> FALSE, hard |-> FALSE]

\* No analyzer runs.
InitAnalyzerIdle ==
    /\ max_retries = 1
    /\ max_concurrent = 1
    /\ include_been_analyzed = FALSE
    /\ concurrent = FALSE
    /\ index_range = <<1, DbPosts>>
    /\ db = [i \in 1..DbPosts |-> Row(TRUE, "NULL")]
    /\ posts = <<>>
    /\ tasks = <<>>
    /\ semaphore = 0
    /\ results = <<>>
    /\ apc = "idle"

InitRun ==
    /\ InitAnalyzerIdle
    /\ pc = "idle"
    /\ comments_tree = <<>>
    /\ comments = <<>>
    /\ InitCrawler

\* A well-behaved search API over a fixed upstream, which holds fewer posts
\* than max_posts or all of them.
Init ==
    /\ max_posts \in 2..MaxPosts
    /\ \E n \in {max_posts - 1, NumIds} :
          api = [mode |-> "fixed", stream |-> SubSeq(Stream, 1, n),
                 errors |-> MaxFaults]
    /\ InitRun

\* A search API that reads the cursor sloppily, so that pages repeat items of
\* earlier pages, over an upstream with flawed items.
InitAnyApi ==
    /\ max_posts \in 2..MaxPostsAny
    /\ \E stream \in {FlawedStream, FlawedLastStream} :
          api = [mode |-> "sloppy", stream |-> stream, errors |-> MaxFaults]
    /\ InitRun

Outcomes == {"ok", "ioerr", "kill_mid", "kill_before"}

Next ==
    \/ StartRun
    \/ ApiHttpError
    \/ ApiTimeout
    \/ \E w \in Outcomes : ApiOk(w)
    \/ \E w \in Outcomes : InterruptCollect(w)
    \/ \E w \in Outcomes : CollectFinish(w)
    \/ \E w \in Outcomes : PhaseOneReturn(w)
    \/ \E ok \in BOOLEAN : InitBrowser(ok)
    \/ \E p \in Pages : Navigate(p)
    \/ Challenge
    \/ \E p \in Pages : OperatorResume(p)
    \/ \E wo \in Outcomes, ws \in Outcomes \cup {"intr"},
          delayErr \in BOOLEAN : Fetch(wo, ws, delayErr)
    \/ AfterLoop
    \/ \E wo \in Outcomes, ws \in Outcomes : FinallySave(wo, ws)
    \/ \E closeErr \in BOOLEAN : Cleanup(closeErr)
    \/ Interrupt
    \/ \E during \in BOOLEAN : InterruptFetch(during)
    \/ InterruptChallenge
    \/ Kill

Spec == Init /\ [][Next]_vars

SpecAnyApi == InitAnyApi /\ [][Next]_vars

\* A well-behaved search API and a disk on which two writes can fail.
InitTwoFaults ==
    /\ max_posts = MaxPostsAny
    /\ api = [mode |-> "fixed", stream |-> Stream, errors |-> MaxFaultsInRow]
    /\ InitRun

SpecTwoFaults == InitTwoFaults /\ [][Next]_vars

\* A well-behaved search API over a finite upstream, flawed items included:
\* every non-empty page holds only items older than the cursor of its request.
InitOlderPages ==
    /\ max_posts \in 2..MaxPostsAny
    /\ \E stream \in {Stream, FlawedStream, FlawedLastStream} :
          api = [mode |-> "fixed", stream |-> stream, errors |-> MaxFaults]
    /\ InitRun

\* One iteration of the while loop of collect_post_urls (lines 479-586): a
\* request and the handling of its outcome.
Request == ApiHttpError \/ ApiTimeout \/ \E w \in Outcomes : ApiOk(w)

\* The loop is sequential code: while it is running it makes its next request,
\* whose outcome (a failure of either kind or a page) is not constrained.
SpecLoopRuns == InitOlderPages /\ [][Next]_vars /\ WF_vars(Request)

\* fetch_post_json on the JSON of one post with any comment listing.
InitComments ==
    /\ InitAnalyzerIdle
    /\ pc = "parse"
    /\ comments_tree \in Forests
    /\ comments = <<>>
    /\ max_posts = 2
    /\ api = [mode |-> "fixed", stream |-> Stream, errors |-> MaxFaults]
    /\ InitCrawler

NextComments == ParseCommentTree

SpecComments == InitComments /\ [][NextComments]_vars

\* LLMAnalyzer.__init__ and one call of analyze_posts_from_db with an
\* index_range, over any small posts table.
InitAnalyzer ==
    /\ max_retries \in 1..MaxRetries
    /\ max_concurrent \in 1..MaxConcurrent
    /\ include_been_analyzed \in BOOLEAN
    /\ concurrent \in BOOLEAN
    /\ index_range \in {<<1, DbPosts>>, <<2, DbPosts>>}
    /\ db \in [1..DbPosts -> Rows]
    /\ posts = <<>>
    /\ tasks = <<>>
    /\ semaphore = 0
    /\ results = <<>>
    /\ apc = "start"
    /\ pc = "idle"
    /\ comments_tree = <<>>
    /\ comments = <<>>
    /\ max_posts = 2
    /\ api = [mode |-> "fixed", stream |-> Stream, errors |-> MaxFaults]
    /\ InitCrawler

NextAnalyzer ==
    \/ SelectPosts
    \/ \E i \in 1..DbPosts : StartTask(i)
    \/ \E i \in 1..DbPosts, reply \in Replies, saveOk \in BOOLEAN :
          LlmCall(i, reply, saveOk)
    \/ \E i \in 1..DbPosts : Wake(i)
    \/ ReturnResults

SpecAnalyzer == InitAnalyzer /\ [][NextAnalyzer]_vars

(* ------------------------------ claims --------------------------------- *)
\* The identifiers of a candidate list, in order.
IdSeq(urls) == [i \in 1..Len(urls) |-> ExtractPostId(urls[i].url)]

NoRepeat(q) == \A i, j \in 1..Len(q) : i # j => q[i] # q[j]

\* C1: whatever pages the search API returns, in this run or in an earlier one
\* that was resumed, no post identifier is twice in the candidate list: not
\* while collecting, not in the saved checkpoint, not in the returned list.
C1_NoDuplicateCandidates ==
    /\ NoRepeat(IdSeq(collected_urls))
    /\ NoRepeat(IdSeq(url_list))
    /\ stateFile.st = "ok" => NoRepeat(IdSeq(stateFile.collected_urls_with_source))

\* A resumed run was handed again an identifier of its checkpoint, skipped it
\* and went on to collect a full list.
C1_Witness ==
    /\ pc = "p1_final"
    /\ hist.dup = "resumed"
    /\ hist.loaded > 0
    /\ Len(collected_urls) = max_posts
    /\ Len(collected_urls) > hist.loaded

\* C2: in phase 1 the dedup id set is exactly the set of identifiers of the
\* candidates, in memory (after an append and after a resume) and in the
\* checkpoint's collected_post_ids (after a save).
C2_IdSetIsProjection ==
    /\ pc \in {"collect", "p1_final", "p1_return"}
         => collected_post_ids = IdsOfUrls(collected_urls)
    /\ (stateFile.st = "ok" /\ stateFile.url_collection_progress.has)
         => stateFile.url_collection_progress.collected_post_ids
              = IdsOfUrls(stateFile.collected_urls_with_source)

\* A resumed run has appended to the candidates it loaded and saved them.
C2_Witness ==
    /\ pc = "p1_return"
    /\ hist.loaded > 0
    /\ Len(collected_urls) > hist.loaded
    /\ stateFile.st = "ok"
    /\ stateFile.url_collection_progress.has
    /\ stateFile.collected_urls_with_source = collected_urls
    /\ Cardinality(collected_post_ids) = Len(collected_urls)

\* C3: over the same upstream, a collection that was stopped, saved to the
\* checkpoint, loaded and continued by a second run returns the candidate
\* sequence one uninterrupted run returns, wherever the first run stopped.
C3_ResumeEquivalence ==
    (/\ pc = "p1_return"
     /\ hist.loaded > 0
     /\ consecutive_errors < HttpCeiling)
    => url_list = CollectToEnd(api.stream, <<>>, {}, None)

\* The post ids that have a record in the output file.
OutIds(out) == {ExistingData(out)[i].post_id : i \in 1..Len(ExistingData(out))}

\* How often record r is in the output file.
Count(out, r) ==
    Cardinality({i \in 1..Len(ExistingData(out)) : ExistingData(out)[i] = r})

CandidateId(urls, i) == ExtractPostId(urls[i].url)

\* C4: the persisted current_post_index never decreases while the checkpoint
\* exists, and a step raises it only together with a successful append to
\* the output file.
C4_CheckpointMonotone ==
    [][(stateFile.st = "ok" /\ stateFile'.st = "ok") =>
         /\ stateFile'.current_post_index >= stateFile.current_post_index
         /\ stateFile'.current_post_index > stateFile.current_post_index =>
              /\ outFile'.st = "ok"
              /\ Len(ExistingData(outFile')) > Len(ExistingData(outFile))]_vars

\* C5: the run that resumes after a kill between the output write and the
\* checkpoint update of save_data fetches again at most BatchSize candidates
\* that are in the output already, and skips no candidate that is not.
C5_CrashRefetchBound ==
    (pc = "fetch" /\ hist.gap) =>
        /\ Cardinality({i \in (index + 1)..Len(url_list) :
                          CandidateId(url_list, i) \in OutIds(outFile)}) <= BatchSize
        /\ \A i \in 1..index : CandidateId(url_list, i) \in OutIds(outFile)

\* C6: every candidate before the persisted current_post_index has its
\* record in the output file.
C6_FlushedBeforeIndex ==
    stateFile.st = "ok" =>
        \A i \in 1..Len(stateFile.collected_urls_with_source) :
            i < stateFile.current_post_index =>
                CandidateId(stateFile.collected_urls_with_source, i)
                    \in OutIds(outFile)

\* C7: when a run ends and none of its output writes failed, every record it
\* fetched is in the output file exactly once.
C7_EmittedExactlyOnce ==
    (pc = "cleanup" /\ ~hist.outFailed) =>
        \A r \in hist.fetched : Count(outFile, r) = 1

\* C8: a first run that collected max_posts candidates, had a fetch fail
\* without reaching the failure ceiling and completed has a record of every
\* candidate in the output file.
C8_EndToEnd ==
    (/\ pc = "cleanup"
     /\ run = 1
     /\ faults = 0
     /\ completed_normally
     /\ Len(url_list) = max_posts
     /\ consecutive_failures < FetchCeiling
     /\ Cardinality(hist.fetched) < Len(url_list)) =>
        \A i \in 1..Len(url_list) : CandidateId(url_list, i) \in OutIds(outFile)

\* C9: the state file is removed only by a run whose loop ran past the last
\* candidate, never by one that the failure ceiling, an interrupt or an error
\* stopped.
C9_RemovedOnlyOnCompletion ==
    [][(stateFile.st # "none" /\ stateFile'.st = "none") =>
         /\ pc = "cleanup"
         /\ index >= Len(url_list)
         /\ consecutive_failures < FetchCeiling]_vars

\* C10: after a kill during a write of the state file, load_progress returns
\* what it would return for the previous checkpoint or for the new one.
C10_AtomicSave ==
    hist.torn.has =>
        LoadProgress(stateFile, 0) \in {LoadProgress(hist.torn.old, 0),
                                        LoadProgress(hist.torn.new, 0)}

\* C11: a run that starts over a cut-short state file starts fresh: phase 1
\* from the first page with no candidate, no id, no cursor and no count taken
\* from the file.
C11_NoPartialCheckpoint ==
    [][(stateFile.st = "partial" /\ run' = run + 1) =>
         /\ LoadProgress(stateFile, 0) = Fresh(0)
         /\ pc' = "collect"
         /\ collected_urls' = <<>>
         /\ collected_post_ids' = {}
         /\ before' = None
         /\ url_list' = <<>>
         /\ current_index' = 1
         /\ total_crawled_count' = 0]_vars

\* The second run has started over a state file that a kill cut short while
\* it held candidates.
C11_Witness ==
    /\ run = 2
    /\ pc = "collect"
    /\ stateFile.st = "partial"
    /\ collected_urls = <<>>
    /\ outFile.st = "ok"

\* C12: after a write of the output file or of the state file failed in
\* phase 2, the run fetches no further candidate and does not remove the
\* state file.
C12_WriteFailureStopsRun ==
    [][(hist.outFailed \/ hist.stateFailed) =>
         /\ index' <= index
         /\ stateFile.st # "none" => stateFile'.st # "none"]_vars

\* q starts with p.
IsPrefix(p, q) == Len(p) <= Len(q) /\ SubSeq(q, 1, Len(p)) = p

\* C13: a step of phase 2 that changes the persisted index or count also
\* appends to the output file, and a step whose output write fails leaves the
\* state file and the count as they were and keeps the batch in memory.
C13_OutputBeforeIndex ==
    [][/\ (/\ pc \in {"fetch", "inspect", "reloaded", "finally"}
            /\ stateFile.st = "ok" /\ stateFile'.st = "ok"
            /\ stateFile' # stateFile) =>
              /\ outFile'.st = "ok"
              /\ Len(ExistingData(outFile')) > Len(ExistingData(outFile))
       /\ (~hist.outFailed /\ hist'.outFailed) =>
              /\ stateFile' = stateFile
              /\ outFile' = outFile
              /\ total_crawled_count' = total_crawled_count
              /\ all_posts_data' # <<>>
              /\ IsPrefix(all_posts_data, all_posts_data')]_vars

\* The second flush of a run failed in the output write after the first one
\* had advanced the checkpoint.
C13_Witness ==
    /\ hist.outFailed
    /\ pc \in {"fetch", "after_loop", "finally", "cleanup"}
    /\ Len(all_posts_data) >= BatchSize
    /\ stateFile.st = "ok"
    /\ stateFile.current_post_index > 1
    /\ outFile.st = "ok"

\* C14: a successful write of the output file keeps what the file held and
\* adds the batch after it, and every post that a completed write once
\* recorded in the file still has a record there, also when a kill cut short
\* a write in between.
C14_AppendMerges ==
    [][(outFile' # outFile /\ outFile'.st = "ok") =>
         /\ outFile.st = "ok" => IsPrefix(outFile.recs, outFile'.recs)
         /\ {r.post_id : r \in hist.durable} \subseteq OutIds(outFile')]_vars

\* C15: when an interrupt ends phase 2 during the fetch of a candidate, the
\* list is complete and no write fails, the finally block leaves no record of that candidate from this
\* run, has flushed every fetched record, has saved a checkpoint from which
\* the next run starts at that candidate, and the browser is closed.
C15_InterruptCheckpoint ==
    [][(/\ pc = "cleanup" /\ hist.intr > 0 /\ faults = 0
        /\ Len(url_list) = max_posts) =>
         /\ PostData(url_list[hist.intr]) \notin Range(ExistingData(outFile))
         /\ all_posts_data = <<>>
         /\ hist.fetched \subseteq Range(ExistingData(outFile))
         /\ LoadProgress(stateFile, 0).is_collection_complete
         /\ LoadProgress(stateFile, 0).current_index = hist.intr
         /\ (pc' = "done" /\ faults' = 0) => session' = "closed"]_vars

\* C16: a run of crawl_posts that started the browser has closed the page,
\* the browser context and the playwright driver when it is over.
C16_SessionClosed ==
    pc = "done" => session \in {"none", "closed"}

\* C17: a candidate whose page the detector found positive blocks once: the
\* only steps out of the wait are the operator's resumption, which reloads
\* the JSON URL of the same candidate, an interrupt and a kill; after the
\* reload the detector does not block again, and the iteration that goes on
\* reads the reloaded page for that same candidate, so that a page with post
\* data gives the record of the challenged candidate, in the pending batch or
\* in the output file, and the loop index moves by exactly one.
C17_ChallengeResumes ==
    [][/\ (pc = "blocked" /\ pc' \notin {"finally", "killed"}) =>
             /\ pc' = "reloaded"
             /\ index' = index /\ current_index' = current_index
             /\ hist'.challenged = current_index /\ hist'.fetched = hist.fetched
       /\ pc = "reloaded" => pc' # "blocked"
       /\ (pc = "reloaded" /\ pc' \in {"fetch", "after_loop"}) =>
             /\ hist.challenged = index + 1
             /\ index' = index + 1 /\ current_index' = index + 1
             /\ hist'.fetched \ hist.fetched \subseteq {PostData(url_list[index + 1])}
             /\ browser_page.pre = "post" =>
                   /\ PostData(url_list[index + 1]) \in hist'.fetched
                   /\ PostData(url_list[index + 1]) \in
                        Range(all_posts_data') \cup Range(ExistingData(outFile'))]_vars

C17_Witness ==
    /\ pc = "fetch" /\ index >= 2 /\ hist.challenged = index
    /\ PostData(url_list[index]) \in hist.fetched
    /\ PostData(url_list[index - 1]) \in hist.fetched
    /\ Len(all_posts_data) = 1 /\ outFile.st = "ok"

\* C18: the detector never blocks on a page whose <pre> text has the title,
\* author and selftext keys, whatever selectors or keywords the page also
\* has.
C18_StructuredDataShortCircuit ==
    pc = "blocked" => browser_page.pre \notin {"keys", "post"}

\* C19: a page without the structured data and without a visible challenge
\* selector whose body text has a keyword of the list makes the detector
\* positive: the only step of the pipeline from such a page is into the wait
\* (or an interrupt or a kill), with or without a <pre> element.
C19_KeywordScan ==
    [][(/\ pc = "inspect" /\ ~browser_page.sel
        /\ browser_page.pre \notin {"keys", "post"} /\ browser_page.kw) =>
            pc' \in {"blocked", "finally", "killed"}]_vars

\* C20: from the positive detection to the operator's resumption nothing is
\* written: the step into the wait and every step out of it leave the state
\* file and the output file as they are, and the detection and the
\* resumption leave the pending batch, the count and the current index as
\* they are.
C20_NoWriteWhileBlocked ==
    [][(pc = "blocked" \/ pc' = "blocked") =>
         /\ stateFile' = stateFile /\ outFile' = outFile
         /\ pc' \in {"blocked", "reloaded"} =>
               /\ all_posts_data' = all_posts_data
               /\ current_index' = current_index /\ index' = index
               /\ total_crawled_count' = total_crawled_count]_vars

C20_Witness ==
    /\ pc = "blocked" /\ all_posts_data # <<>> /\ current_index >= 2
    /\ stateFile.st = "ok" /\ outFile.st = "ok"
    /\ stateFile.current_post_index < current_index

\* The comments of a raw listing and of a parsed list in reading order, each
\* with its depth; placeholders are left out of the raw listing.
RECURSIVE RawOutline(_, _)
RawOutline(children, depth) ==
    IF children = <<>> THEN <<>>
    ELSE LET c == Head(children)
             own == IF c.kind = "more" THEN <<>>
                    ELSE <<[text |-> c.data.body, depth |-> depth]>>
                         \o RawOutline(c.data.replies.children, depth + 1)
         IN  own \o RawOutline(Tail(children), depth)

RECURSIVE ParsedOutline(_, _)
ParsedOutline(parsed, depth) ==
    IF parsed = <<>> THEN <<>>
    ELSE <<[text |-> Head(parsed).text, depth |-> depth]>>
         \o ParsedOutline(Head(parsed).replies, depth + 1)
         \o ParsedOutline(Tail(parsed), depth)

\* The parsed comments at every depth, paired with the raw comment each one
\* comes from.
RECURSIVE ParsedPairs(_, _)
ParsedPairs(children, parsed) ==
    LET kept == SelectSeq(children, LAMBDA c : c.kind # "more")
    IN  UNION {{<<kept[i], parsed[i]>>}
               \cup ParsedPairs(kept[i].data.replies.children, parsed[i].replies)
               : i \in 1..Min(Len(kept), Len(parsed))}

\* C21: the parsed comments are exactly the comments of the listing that are
\* no placeholder, in their order and at their depth, and reply_count of
\* every parsed comment is the number of direct replies of its raw comment
\* that are no placeholder, which is the number of its parsed replies.
C21_CommentTree ==
    pc = "parsed" =>
        /\ ParsedOutline(comments, 1) = RawOutline(comments_tree, 1)
        /\ \A pr \in ParsedPairs(comments_tree, comments) :
              /\ pr[2].reply_count = Len(pr[2].replies)
              /\ pr[2].reply_count =
                   Cardinality({i \in 1..Len(pr[1].data.replies.children) :
                                  pr[1].data.replies.children[i].kind # "more"})

C21_Witness ==
    /\ pc = "parsed" /\ Len(comments_tree) = 2 /\ Len(comments) = 1
    /\ comments_tree[1].kind = "more"
    /\ Len(comments_tree[2].data.replies.children) = 2
    /\ comments[1].reply_count = 1
    /\ comments[1].replies[1].text # comments[1].text
    /\ comments[1].replies[1].reply_count = 0
    /\ comments_tree[2].data.replies.children[2].data.replies.dict
    /\ Len(comments_tree[2].data.replies.children[2].data.replies.children) = 1

C23_CeilingPerKind ==
    (pc = "p1_final" /\ hist.ceiling) =>
        hist.nHttp >= HttpCeiling \/ hist.nTimeout >= TimeoutCeiling

\* C24: when phase 1 ended on a failure ceiling and returned its partial
\* list, the step of the driver that follows does not go on to the browser
\* and phase 2, and the checkpoint it leaves gives the next run the partial
\* list together with its collection progress (cursor and id set).
C24_AbortKeepsPartial ==
    [][(pc = "p1_return" /\ hist.ceiling /\ pc' # "killed" /\ faults' = faults) =>
         /\ pc' # "init_browser"
         /\ url_list # <<>> =>
               /\ LoadProgress(stateFile', 0).url_list = url_list
               /\ LoadProgress(stateFile', 0).collection_progress.has]_vars

\* C25: a page of the search API that was received and holds items, some of
\* which may lack id, permalink or created_utc at any position, never counts
\* as a failure: after the step that processes it the consecutive-failure
\* count is 0, no ceiling has ended the loop, and the cursor is the
\* created_utc the page ended with.
C25_FlawedItemSkipped ==
    [][(/\ pc = "collect" /\ pc' \in {"collect", "p1_final"}
        /\ hist'.nHttp <= hist.nHttp /\ hist'.nTimeout <= hist.nTimeout
        /\ hist'.lastPage > 0) =>
            /\ consecutive_errors' = 0
            /\ ~hist'.ceiling
            /\ before' # None]_vars

\* The ids the search API gave for the candidates of a list.
ApiIdsOf(urls) ==
    {p.id : p \in {q \in Range(api.stream) :
                     HasFields(q) /\ \E i \in 1..Len(urls) : urls[i].url = q.permalink}}

C27_FetchCeilingHalts ==
    [][/\ pc' \in {"fetch", "inspect", "blocked", "reloaded"} =>
             consecutive_failures' < FetchCeiling
       /\ (/\ pc \in {"inspect", "reloaded"} /\ pc' \in {"fetch", "after_loop"}
           /\ faults' = faults) =>
             /\ consecutive_failures' =
                  IF FetchResult(browser_page) = "ok" THEN 0
                  ELSE consecutive_failures + 1
             /\ (pc' = "after_loop" /\ index' < Len(url_list)) =>
                  consecutive_failures' = FetchCeiling
       /\ (/\ pc' = "cleanup" /\ consecutive_failures' >= FetchCeiling
           /\ ~hist'.outFailed) =>
             /\ hist'.fetched \subseteq Range(ExistingData(outFile'))
             /\ all_posts_data' = <<>>]_vars

C27_Witness ==
    /\ pc = "cleanup" /\ consecutive_failures = FetchCeiling /\ faults = 0
    /\ hist.fetched # {} /\ all_posts_data = <<>> /\ ~completed_normally
    /\ hist.fetched \subseteq Range(ExistingData(outFile))
    /\ Len(ExistingData(outFile)) = 1

MissingFrom(urls, file) ==
    {i \in 1..Len(urls) : urls[i] \notin Range(LoadProgress(file, 0).url_list)}

\* C29: after every step of phase 1 that processed a page of the search API
\* without an error, fewer candidates than the save interval are collected
\* in memory and missing from the checkpoint on disk.
C29_CollectionLossBound ==
    [][(/\ pc = "collect" /\ pc' \in {"collect", "p1_final"}
        /\ hist'.nHttp <= hist.nHttp /\ hist'.nTimeout <= hist.nTimeout
        /\ consecutive_errors' = 0 /\ hist'.lastPage > 0) =>
            Cardinality(MissingFrom(collected_urls', stateFile')) < SaveEvery]_vars

\* C30: a run that starts over a readable checkpoint with a non-empty
\* candidate list takes that list and the saved index, whether the list has
\* max_posts candidates or fewer; it does not start again from nothing.
C30_CheckpointAccepted ==
    [][(/\ run' = run + 1 /\ stateFile.st = "ok"
        /\ stateFile.collected_urls_with_source # <<>>) =>
          /\ LoadProgress(stateFile, 0).url_list
               = stateFile.collected_urls_with_source
          /\ \/ url_list' = stateFile.collected_urls_with_source
             \/ collected_urls' = stateFile.collected_urls_with_source
          /\ current_index' = stateFile.current_post_index]_vars

\* The post identifiers of the records in the output file, in file order.
OutIdSeq(out) == [i \in 1..Len(ExistingData(out)) |-> ExistingData(out)[i].post_id]

\* C31: when phase 2 was stopped by an interrupt signal (during a fetch, during
\* a challenge wait or during the delay) and a later run completed it, with no
\* failed write, no kill and no interrupt inside save_data, the output file
\* holds the record of each candidate at most once. hist.sig tells that a run
\* was stopped by the signal, hist.hard that a process was killed or that the
\* signal arrived inside save_data.
C31_InterruptResumeNoRepeat ==
    (/\ pc = "cleanup"
     /\ completed_normally
     /\ hist.sig
     /\ ~hist.hard
     /\ faults = 0)
    => NoRepeat(OutIdSeq(outFile))

\* The parameters of the next request (lines 483-490): the cursor and the size.
RequestParams == <<before, Min(PageCap, max_posts - Len(collected_urls))>>

\* A step in which a search-API request failed.
RequestFailed == hist'.nHttp > hist.nHttp \/ hist'.nTimeout > hist.nTimeout

\* C32: a failed search-API request (non-200 status, timeout, connection
\* error, undecodable body) leaves the candidate list, the id set and the
\* cursor as they were and writes no checkpoint; it only counts the error. When
\* the loop goes on, the next request has the parameters of the failed one.
C32_FailedRequestKeepsState ==
    [][RequestFailed =>
         /\ pc = "collect"
         /\ collected_urls' = collected_urls
         /\ collected_post_ids' = collected_post_ids
         /\ before' = before
         /\ stateFile' = stateFile
         /\ last_save_count' = last_save_count
         /\ consecutive_errors' = consecutive_errors + 1
         /\ pc' \in {"collect", "p1_final"}
         /\ pc' = "collect" => RequestParams' = RequestParams]_vars

\* A request failed after a page had been collected, and the loop retries.
C32_Witness ==
    /\ pc = "collect"
    /\ hist.nHttp + hist.nTimeout > 0
    /\ collected_urls # <<>>
    /\ before # None
    /\ stateFile.st = "ok"

Unsaved == hist.fetched \ Range(ExistingData(outFile))

\* A step in which save_data wrote the output file and returned.
FlushReturned == outFile' # outFile /\ pc' \in {"fetch", "after_loop", "cleanup"}

\* C34: while no output write of the run has failed, the pending batch never
\* holds more than BatchSize (10) records, at most BatchSize fetched records
\* are not in the output file, and the batch is empty after every flush.
C34_BatchBounded ==
    /\ [](~hist.outFailed =>
            /\ Len(all_posts_data) <= BatchSize
            /\ Cardinality(Unsaved) <= BatchSize)
    /\ [][FlushReturned => all_posts_data' = <<>>]_vars

\* A second batch filled up after the first one was flushed.
C34_Witness ==
    /\ pc = "fetch"
    /\ ~hist.outFailed
    /\ Len(ExistingData(outFile)) = BatchSize
    /\ Len(all_posts_data) = BatchSize - 1
    /\ Cardinality(hist.fetched) = 2 * BatchSize - 1

\* The persisted total_crawled_count is the number of records in the output.
CountAgrees(state, out) ==
    state.st = "ok" => state.total_crawled_count = Len(ExistingData(out))

\* C35: in a crawl started with no checkpoint and no output file, after every
\* save_data that returns and whenever a run resumes after a crash, the
\* persisted total_crawled_count equals the number of records in the output
\* file. Failed writes are left aside.
C35_CountMatchesOutput ==
    [][faults' = 0 =>
         /\ FlushReturned => CountAgrees(stateFile', outFile')
         /\ (run' > run /\ pc = "killed") => CountAgrees(stateFile', outFile')]_vars

\* i is a 1-based position in urls; for an empty list only the start, 1.
ValidPosition(i, urls) == i >= 1 /\ (urls # <<>> => i <= Len(urls))

\* C36: the persisted current_post_index is at least 1 and, when the persisted
\* candidate list is not empty, at most its length; the index load_progress
\* returns is a position of the list it returns (1 with an empty list).
C36_IndexInRange ==
    /\ stateFile.st = "ok" =>
         ValidPosition(stateFile.current_post_index,
                       stateFile.collected_urls_with_source)
    /\ LET lp == LoadProgress(stateFile, total_crawled_count)
       IN  ValidPosition(lp.current_index, lp.url_list)

\* The task is over: it returned or it was left by an exception.
Over(t) == t.st \in {"returned", "raised"}

\* C37: analyze_post and analyze_post_async make at most max_retries LLM calls
\* for a post and stop at the first call that succeeds with a response that
\* passes the validation: they return success = true after such a call and
\* success = false after max_retries calls without one, and they call
\* _save_result_to_db only after such a call.
C37_RetryUntilValid ==
    \A i \in DOMAIN tasks :
       LET t == tasks[i]
       IN  /\ t.calls <= max_retries
           /\ t.passed => t.st = "returned" /\ t.success
           /\ t.saved => t.passed
           /\ Over(t) =>
                /\ t.st = "returned"
                /\ t.success = t.passed
                /\ ~t.passed => t.calls = max_retries

\* The posts that are being analyzed: an LLM call or a retry sleep is going on.
Busy == {i \in DOMAIN tasks : tasks[i].st \in {"calling", "sleeping"}}

\* C38: in concurrent mode at most max_concurrent posts are being analyzed at
\* any instant, and the call ends by returning one result per selected post,
\* in the order of the selected posts, after every one of them was analyzed
\* (once: the model has one task per selected post).
C38_ConcurrentBounded ==
    concurrent =>
      /\ Cardinality(Busy) <= max_concurrent
      /\ apc \notin {"start", "running"} =>
           /\ apc = "returned"
           /\ Len(results) = Len(posts)
           /\ \A i \in DOMAIN tasks :
                /\ tasks[i].st = "returned"
                /\ tasks[i].calls >= 1
                /\ results[i] = Result(posts[i], tasks[i])

\* The rows that have a stored result and match the filter of the call.
AnalyzedMatching ==
    {i \in 1..DbPosts : /\ db[i].is_valid
                        /\ index_range[1] <= i /\ i <= index_range[2]
                        /\ db[i].llm_analyze_result # "NULL"}

\* C39: analyze_posts_from_db selects the posts that have a stored result if
\* and only if include_been_analyzed is true: with the flag false none of
\* them is selected, with the flag true every one that matches the filter is.
C39_IncludeFlagHonoured ==
    [][apc = "start" /\ apc' # "start" =>
         \A i \in AnalyzedMatching :
            (i \in Range(posts')) <=> include_been_analyzed]_vars

====
